---- MODULE Spec2Model ----
(***************************************************************************)
(* Model of src/main.cpp: ThreadRNG, SumTask and SumCoordinator.           *)
(*                                                                         *)
(* The coordinator is driven by a client that constructs it with arbitrary *)
(* integer arguments and then calls run_all(), summaries() and best() in   *)
(* any order.  Each std::thread spawned by run_all() is a process of its   *)
(* own, interleaved freely with the others and with the coordinator.       *)
(*                                                                         *)
(* std::uint64_t values are kept at their full width, as four 16-bit limbs *)
(* (least significant first), so that the wrap-around of the accumulator   *)
(* is the one of the program.                                              *)
(***************************************************************************)
EXTENDS Integers, Sequences, FiniteSets, TLC

VARIABLES
    args,      \* the arguments the constructor was called with
    pc,        \* the position of the thread that owns the coordinator
    tasks_,    \* SumCoordinator::tasks_   (std::vector<SumTask>)
    threads_,  \* SumCoordinator::threads_ (std::vector<std::thread>), with each thread's locals
    it,        \* the position of the range-for loop run_all() is in
    runs,      \* how many calls of run_all() have returned
    ret,       \* the value returned by the last call of summaries() or best()
    writes,    \* per task, how many times result_ was assigned by operator()
    execs      \* per task, how many times operator() was entered

vars == <<args, pc, tasks_, threads_, it, runs, ret, writes, execs>>

---------------------------------------------------------------------------
\* Bounds of the model.

MaxThreads == 2   \* thread_count is drawn from -1..MaxThreads
MaxSamples == 2   \* samples_per_thread is drawn from -1..MaxSamples
MaxValue   == 1   \* minv and maxv are drawn from -1..MaxValue
MaxRuns    == 2   \* run_all() is called at most MaxRuns times
MaxWork    == 4   \* thread_count * samples_per_thread is at most MaxWork

ThreadCounts == (0 - 1)..MaxThreads
SampleCounts == (0 - 1)..MaxSamples
Values       == (0 - 1)..MaxValue

\* The argument tuples <<thread_count, samples_per_thread, minv, maxv>> the
\* constructor is called with: every combination of the small ranges (the
\* invalid ones included) whose total number of draws is at most MaxWork, and
\* the configuration of the determinism-independent check (one worker, five
\* draws of the value 7).
Configs ==
    {c \in ThreadCounts \X SampleCounts \X Values \X Values : c[1] * c[2] <= MaxWork}
        \cup {<<1, 5, 7, 7>>}

---------------------------------------------------------------------------
\* std::uint64_t as four 16-bit limbs, least significant first.

Base == 65536

U64Zero == <<0, 0, 0, 0>>

\* static_cast<std::uint64_t>(int): sign extension of a 32-bit int.
U64FromInt(v) ==
    <<v % Base,
      (v \div Base) % Base,
      IF v < 0 THEN Base - 1 ELSE 0,
      IF v < 0 THEN Base - 1 ELSE 0>>

\* acc += x on std::uint64_t: addition modulo 2^64.
U64Add(a, b) ==
    LET s1 == a[1] + b[1]
        s2 == a[2] + b[2] + (s1 \div Base)
        s3 == a[3] + b[3] + (s2 \div Base)
        s4 == a[4] + b[4] + (s3 \div Base)
    IN  <<s1 % Base, s2 % Base, s3 % Base, s4 % Base>>

\* a < b on std::uint64_t.
U64Less(a, b) ==
    \/ a[4] < b[4]
    \/ a[4] = b[4] /\ a[3] < b[3]
    \/ a[4] = b[4] /\ a[3] = b[3] /\ a[2] < b[2]
    \/ a[4] = b[4] /\ a[3] = b[3] /\ a[2] = b[2] /\ a[1] < b[1]

---------------------------------------------------------------------------
\* The initial state: the coordinator is not constructed yet.

NoRet == [op |-> "none", val |-> <<>>]

Init ==
    /\ args = <<>>
    /\ pc = "new"
    /\ tasks_ = <<>>
    /\ threads_ = <<>>
    /\ it = 0
    /\ runs = 0
    /\ ret = NoRet
    /\ writes = <<>>
    /\ execs = <<>>

---------------------------------------------------------------------------
\* SumTask

\* The constructor leaving result_ out of its initializer list.
SumTaskUninitialized(id, samples, minv, maxv) ==
    [id |-> id, samples |-> samples, min_val |-> minv, max_val |-> maxv,
     result |-> <<1, 0, 0, 0>>]

\* SumTask::SumTask(Config cfg) : cfg_(cfg), result_(0)
SumTask(id, samples, minv, maxv) ==
    [id |-> id, samples |-> samples, min_val |-> minv, max_val |-> maxv,
     result |-> U64Zero]

\* Every std::thread constructed on the first task instead of its own.
NewThreadShared(k) ==
    [task |-> 1, joinable |-> TRUE, pc |-> "start", i |-> 0, acc |-> U64Zero]

\* A std::thread just constructed on a task: joinable, about to enter
\* SumTask::operator().
NewThread(k) ==
    [task |-> k, joinable |-> TRUE, pc |-> "start", i |-> 0, acc |-> U64Zero]

---------------------------------------------------------------------------
\* ThreadRNG

\* ThreadRNG::uniform_int(low, high) with low <= high: the values the
\* distribution can return, whatever the seed.
UniformInt(low, high) == low..high

\* std::uniform_int_distribution<int>(low, high) with low > high is undefined
\* behaviour: the build either aborts or returns some int, of either sign and
\* inside the range or not.
UniformIntUndefined == {0 - 1, MaxValue}

---------------------------------------------------------------------------
\* SumTask::operator(), run by thread t of threads_ on task threads_[t].task.

Running == pc \notin {"new", "threw", "crashed"}

TaskOf(t) == tasks_[threads_[t].task]

\* ThreadRNG rng(id); std::uint64_t acc = 0; int i = 0;
WorkerBegin(t) ==
    /\ Running
    /\ threads_[t].pc = "start"
    /\ threads_' = [threads_ EXCEPT ![t].pc = "loop", ![t].i = 0, ![t].acc = U64Zero]
    /\ execs' = [execs EXCEPT ![threads_[t].task] = @ + 1]
    /\ UNCHANGED <<args, pc, tasks_, it, runs, ret, writes>>

\* The loop condition written i <= cfg_.samples: one draw too many.
LoopContinuesInclusive(i, samples) == i <= samples

\* The loop written as a do-while: the body runs before the first test.
LoopContinuesDoWhile(i, samples) == i = 0 \/ i < samples

\* The loop condition i < cfg_.samples.
LoopContinues(i, samples) == i < samples

\* One iteration that also adds the draw to result_ right away.
WorkerDrawIntoResult(t) ==
    /\ Running
    /\ threads_[t].pc = "loop"
    /\ LoopContinues(threads_[t].i, TaskOf(t).samples)
    /\ TaskOf(t).min_val <= TaskOf(t).max_val
    /\ \E v \in UniformInt(TaskOf(t).min_val, TaskOf(t).max_val) :
          /\ threads_' = [threads_ EXCEPT ![t].acc = U64Add(@, U64FromInt(v)),
                                          ![t].i = @ + 1]
          /\ tasks_' = [tasks_ EXCEPT ![threads_[t].task].result =
                                          U64Add(threads_[t].acc, U64FromInt(v))]
    /\ UNCHANGED <<args, pc, it, runs, ret, writes, execs>>

\* One iteration: acc += static_cast<std::uint64_t>(rng.uniform_int(min, max)); ++i
WorkerDraw(t) ==
    /\ Running
    /\ threads_[t].pc = "loop"
    /\ LoopContinues(threads_[t].i, TaskOf(t).samples)
    /\ TaskOf(t).min_val <= TaskOf(t).max_val
    /\ \E v \in UniformInt(TaskOf(t).min_val, TaskOf(t).max_val) :
          threads_' = [threads_ EXCEPT ![t].acc = U64Add(@, U64FromInt(v)),
                                       ![t].i = @ + 1]
    /\ UNCHANGED <<args, pc, tasks_, it, runs, ret, writes, execs>>

\* One iteration with min_val > max_val, the build returning some int.
WorkerDrawUndefined(t) ==
    /\ Running
    /\ threads_[t].pc = "loop"
    /\ LoopContinues(threads_[t].i, TaskOf(t).samples)
    /\ TaskOf(t).min_val > TaskOf(t).max_val
    /\ \E v \in UniformIntUndefined :
          threads_' = [threads_ EXCEPT ![t].acc = U64Add(@, U64FromInt(v)),
                                       ![t].i = @ + 1]
    /\ UNCHANGED <<args, pc, tasks_, it, runs, ret, writes, execs>>

\* One iteration with min_val > max_val, the build aborting the process.
WorkerDrawAborts(t) ==
    /\ Running
    /\ threads_[t].pc = "loop"
    /\ LoopContinues(threads_[t].i, TaskOf(t).samples)
    /\ TaskOf(t).min_val > TaskOf(t).max_val
    /\ pc' = "crashed"
    /\ UNCHANGED <<args, tasks_, threads_, it, runs, ret, writes, execs>>

\* The sum stored in the slot of the next task in completion order, as a
\* results.push_back(acc) would.
WorkerStoreInCompletionOrder(t) ==
    /\ Running
    /\ threads_[t].pc = "loop"
    /\ ~LoopContinues(threads_[t].i, TaskOf(t).samples)
    /\ LET finished == Cardinality({u \in 1..Len(threads_) : threads_[u].pc = "done"})
           slot == (finished % Len(tasks_)) + 1
       IN  tasks_' = [tasks_ EXCEPT ![slot].result = threads_[t].acc]
    /\ threads_' = [threads_ EXCEPT ![t].pc = "done", ![t].i = 0, ![t].acc = U64Zero]
    /\ writes' = [writes EXCEPT ![threads_[t].task] = @ + 1]
    /\ UNCHANGED <<args, pc, it, runs, ret, execs>>

\* The thread running a copy of the task (std::thread(task) without std::ref):
\* the sum is stored in the copy and the coordinator's task keeps its result.
WorkerStoreToCopy(t) ==
    /\ Running
    /\ threads_[t].pc = "loop"
    /\ ~LoopContinues(threads_[t].i, TaskOf(t).samples)
    /\ threads_' = [threads_ EXCEPT ![t].pc = "done", ![t].i = 0, ![t].acc = U64Zero]
    /\ writes' = [writes EXCEPT ![threads_[t].task] = @ + 1]
    /\ UNCHANGED <<args, pc, tasks_, it, runs, ret, execs>>

\* result_ = acc; and the thread's function returns.
WorkerStore(t) ==
    /\ Running
    /\ threads_[t].pc = "loop"
    /\ ~LoopContinues(threads_[t].i, TaskOf(t).samples)
    /\ tasks_' = [tasks_ EXCEPT ![threads_[t].task].result = threads_[t].acc]
    /\ threads_' = [threads_ EXCEPT ![t].pc = "done", ![t].i = 0, ![t].acc = U64Zero]
    /\ writes' = [writes EXCEPT ![threads_[t].task] = @ + 1]
    /\ UNCHANGED <<args, pc, it, runs, ret, execs>>

---------------------------------------------------------------------------
\* SumCoordinator

\* The constructor's loop numbering the tasks from 1.
MakeTasksFromOne(thread_count, samples, minv, maxv) ==
    [k \in 1..thread_count |-> SumTask(k, samples, minv, maxv)]

\* The constructor's loop: one SumTask per i in 0..thread_count-1.
MakeTasks(thread_count, samples, minv, maxv) ==
    [k \in 1..thread_count |-> SumTask(k - 1, samples, minv, maxv)]

\* SumCoordinator::SumCoordinator with thread_count >= 0.
Construct ==
    /\ pc = "new"
    /\ \E c \in Configs :
          /\ c[1] >= 0
          /\ args' = c
          /\ tasks_' = MakeTasks(c[1], c[2], c[3], c[4])
          /\ writes' = [k \in 1..c[1] |-> 0]
          /\ execs' = [k \in 1..c[1] |-> 0]
    /\ pc' = "idle"
    /\ UNCHANGED <<threads_, it, runs, ret>>

\* SumCoordinator::SumCoordinator with thread_count < 0: the int converts to a
\* size_type above max_size() and tasks_.reserve throws std::length_error.
ConstructThrows ==
    /\ pc = "new"
    /\ \E c \in Configs :
          /\ c[1] < 0
          /\ args' = c
    /\ pc' = "threw"
    /\ UNCHANGED <<tasks_, threads_, it, runs, ret, writes, execs>>

\* run_all() is called.
RunAll ==
    /\ pc = "idle"
    /\ runs < MaxRuns
    /\ pc' = "spawn"
    /\ it' = 1
    /\ ret' = NoRet
    /\ UNCHANGED <<args, tasks_, threads_, runs, writes, execs>>

\* First loop of run_all(): threads_.emplace_back(std::ref(task)).
Spawn ==
    /\ pc = "spawn"
    /\ it <= Len(tasks_)
    /\ threads_' = Append(threads_, NewThread(it))
    /\ it' = it + 1
    /\ UNCHANGED <<args, pc, tasks_, runs, ret, writes, execs>>

\* The first loop is over; the second begins.
SpawnEnd ==
    /\ pc = "spawn"
    /\ it > Len(tasks_)
    /\ pc' = "join"
    /\ it' = 1
    /\ UNCHANGED <<args, tasks_, threads_, runs, ret, writes, execs>>

\* A join that does not wait for the thread (as a detach would).
JoinReturnsAtOnce(t) == threads_[t].pc \in {"start", "loop", "done"}

\* A join that waits for a signal no worker sends.
JoinWaitsForever(t) == threads_[t].pc = "joined"

\* t.join() returns once the thread's function has returned.
JoinReturns(t) == threads_[t].pc = "done"

\* Second loop of run_all(): if (t.joinable()) t.join();
Join ==
    /\ pc = "join"
    /\ it <= Len(threads_)
    /\ threads_[it].joinable
    /\ JoinReturns(it)
    /\ threads_' = [threads_ EXCEPT ![it].joinable = FALSE]
    /\ it' = it + 1
    /\ UNCHANGED <<args, pc, tasks_, runs, ret, writes, execs>>

\* Second loop of run_all(), on a thread that is not joinable.
JoinSkip ==
    /\ pc = "join"
    /\ it <= Len(threads_)
    /\ ~threads_[it].joinable
    /\ it' = it + 1
    /\ UNCHANGED <<args, pc, tasks_, threads_, runs, ret, writes, execs>>

\* run_all() returns.
RunAllReturn ==
    /\ pc = "join"
    /\ it > Len(threads_)
    /\ pc' = "idle"
    /\ it' = 0
    /\ runs' = runs + 1
    /\ UNCHANGED <<args, tasks_, threads_, ret, writes, execs>>

\* The vector summaries() builds: (task.id(), task.result()) per task, in order.
SummariesOf(ts) == [k \in 1..Len(ts) |-> <<ts[k].id, ts[k].result>>]

\* A summaries() that empties the results it hands out.
SummariesMoves ==
    /\ pc = "idle"
    /\ ret' = [op |-> "summaries", val |-> SummariesOf(tasks_)]
    /\ tasks_' = [k \in 1..Len(tasks_) |-> [tasks_[k] EXCEPT !.result = U64Zero]]
    /\ UNCHANGED <<args, pc, threads_, it, runs, writes, execs>>

\* SumCoordinator::summaries()
Summaries ==
    /\ pc = "idle"
    /\ ret' = [op |-> "summaries", val |-> SummariesOf(tasks_)]
    /\ UNCHANGED <<args, pc, tasks_, threads_, it, runs, writes, execs>>

\* The comparator written a.result() <= b.result(): the last maximum wins.
BestLessOrEqual(a, b) == ~U64Less(b.result, a.result)

\* The comparator of best(): a.result() < b.result().
BestLess(a, b) == U64Less(a.result, b.result)

\* std::max_element: largest moves to first whenever comp(*largest, *first).
RECURSIVE MaxElementFrom(_, _, _)
MaxElementFrom(ts, largest, first) ==
    IF first > Len(ts)
    THEN largest
    ELSE MaxElementFrom(ts,
                        IF BestLess(ts[largest], ts[first]) THEN first ELSE largest,
                        first + 1)

\* The position std::max_element returns on a non-empty range.
MaxElement(ts) == MaxElementFrom(ts, 1, 2)

\* SumCoordinator::best() on a coordinator with at least one task.
Best ==
    /\ pc = "idle"
    /\ tasks_ # <<>>
    /\ LET m == MaxElement(tasks_)
       IN  ret' = [op |-> "best", val |-> <<tasks_[m].id, tasks_[m].result>>]
    /\ UNCHANGED <<args, pc, tasks_, threads_, it, runs, writes, execs>>

\* What the dereferenced end iterator of an empty tasks_ may read.
GarbageTasks == {SumTask(0, 0, 0, 0), [SumTask(0 - 1, 0, 0, 0) EXCEPT !.result = U64FromInt(1)]}

\* best() with no task: max_element returns end(), and it->id() is undefined
\* behaviour.  Here the read goes through and a pair of whatever is there returns.
BestEmptyReturns ==
    /\ pc = "idle"
    /\ tasks_ = <<>>
    /\ \E g \in GarbageTasks : ret' = [op |-> "best", val |-> <<g.id, g.result>>]
    /\ UNCHANGED <<args, pc, tasks_, threads_, it, runs, writes, execs>>

\* best() with no task, the read of the end iterator faulting.
BestEmptyCrashes ==
    /\ pc = "idle"
    /\ tasks_ = <<>>
    /\ pc' = "crashed"
    /\ UNCHANGED <<args, tasks_, threads_, it, runs, ret, writes, execs>>

---------------------------------------------------------------------------
\* The specification.

Threads == 1..Len(threads_)

Next ==
    \/ Construct
    \/ ConstructThrows
    \/ RunAll
    \/ Spawn
    \/ SpawnEnd
    \/ Join
    \/ JoinSkip
    \/ RunAllReturn
    \/ Summaries
    \/ Best
    \/ BestEmptyReturns
    \/ BestEmptyCrashes
    \/ \E t \in Threads : WorkerBegin(t)
    \/ \E t \in Threads : WorkerDraw(t)
    \/ \E t \in Threads : WorkerDrawUndefined(t)
    \/ \E t \in Threads : WorkerDrawAborts(t)
    \/ \E t \in Threads : WorkerStore(t)

Spec == Init /\ [][Next]_vars

\* The steps of the thread spawned as threads_[t].
WorkerStep(t) ==
    \/ WorkerBegin(t)
    \/ WorkerDraw(t)
    \/ WorkerDrawUndefined(t)
    \/ WorkerDrawAborts(t)
    \/ WorkerStore(t)

\* The steps of run_all() once it is called.
RunAllStep == Spawn \/ SpawnEnd \/ Join \/ JoinSkip \/ RunAllReturn

\* The scheduler does not stop the process: as long as some thread of it (a
\* spawned worker, or the coordinator's thread inside run_all()) can take a
\* step, one of them does.  This is less than fairness to every single
\* thread, which a preemptive scheduler gives.  The client is not obliged to
\* call anything.
FairSpec ==
    /\ Spec
    /\ WF_vars(RunAllStep \/ \E t \in Threads : WorkerStep(t))

---------------------------------------------------------------------------
\* main(): construct the coordinator, run_all(), summaries(), best(), return.

\* The constants of main (kThreads = 10, kSamples = 100, kMin = 1, kMax = 1000)
\* scaled down: at least one thread, no negative sample count, kMin <= kMax.
MainConfigs == {c \in Configs : c[1] >= 1 /\ c[2] >= 0 /\ c[3] <= c[4]}

\* SumCoordinator coord(kThreads, kSamples, kMin, kMax);
MainConstruct == Construct /\ args' \in MainConfigs

\* coord.run_all();
MainRunAll == RunAll /\ runs = 0

\* auto rows = coord.summaries();
MainSummaries == Summaries /\ runs = 1 /\ ret.op = "none"

\* auto [best_id, best_total] = coord.best();
MainBest == Best /\ ret.op = "summaries"

MainNext ==
    \/ MainConstruct
    \/ MainRunAll
    \/ Spawn
    \/ SpawnEnd
    \/ Join
    \/ RunAllReturn
    \/ MainSummaries
    \/ MainBest
    \/ \E t \in Threads : WorkerBegin(t)
    \/ \E t \in Threads : WorkerDraw(t)
    \/ \E t \in Threads : WorkerStore(t)

MainSpec == Init /\ [][MainNext]_vars

---------------------------------------------------------------------------
\* Vocabulary of the properties.

\* A call of run_all() has returned and the coordinator is between calls.
AfterRunAll == pc = "idle" /\ runs >= 1

\* The constructor ran to its end.
Constructed == pc \notin {"new", "threw"}

SamplesArg == args[2]
MinArg == args[3]
MaxArg == args[4]

\* The constructor ran to its end on a configuration the data model allows.
ValidConfig == Constructed /\ args[1] >= 1 /\ SamplesArg >= 0 /\ MinArg <= MaxArg

\* n <= u and u <= n, for an integer n and a std::uint64_t u, as numbers.
U64IsSmall(u) == u[4] = 0 /\ u[3] = 0 /\ u[2] < Base \div 2
IntLeU64(n, u) == n < 0 \/ ~U64IsSmall(u) \/ n <= u[1] + Base * u[2]
U64LeInt(u, n) == n >= 0 /\ U64IsSmall(u) /\ u[1] + Base * u[2] <= n

---------------------------------------------------------------------------
\* C1: when run_all() has returned, every thread it spawned has finished
\* SumTask::operator() and has been joined, under every interleaving.
C1_JoinBarrier ==
    AfterRunAll =>
        \A t \in Threads : threads_[t].pc = "done" /\ ~threads_[t].joinable

\* run_all() has returned after joining two workers that each drew twice.
C1_Witness ==
    /\ AfterRunAll
    /\ Len(tasks_) = 2
    /\ SamplesArg = 2
    /\ \A k \in 1..Len(tasks_) : writes[k] = 1

\* C2: for thread_count >= 0 and min_value <= max_value, summaries() returns
\* thread_count entries whose ids are 0, 1, ..., thread_count-1 in this order.
C2_SummariesIds ==
    (ret.op = "summaries" /\ args[1] >= 0 /\ MinArg <= MaxArg) =>
        /\ Len(ret.val) = args[1]
        /\ \A k \in 1..Len(ret.val) : ret.val[k][1] = k - 1

\* summaries() was called after a run of two workers whose results differ.
C2_Witness ==
    /\ ret.op = "summaries"
    /\ AfterRunAll
    /\ args[1] = 2
    /\ MinArg <= MaxArg
    /\ ret.val[1][2] # ret.val[2][2]

\* C3: after run_all(), min_value * samples <= result <= max_value * samples for
\* every worker, for all bounds min_value <= max_value, negative ones included.
C3_ResultWithinBounds ==
    (AfterRunAll /\ SamplesArg >= 0 /\ MinArg <= MaxArg) =>
        \A k \in 1..Len(tasks_) :
            /\ IntLeU64(MinArg * SamplesArg, tasks_[k].result)
            /\ U64LeInt(tasks_[k].result, MaxArg * SamplesArg)

\* C4: after run_all(), best() returns the (id, result) of a task whose result
\* is the maximum of all results, and of the one with the smallest id among
\* the tasks that share the maximum.
C4_BestIsFirstMax ==
    (ret.op = "best" /\ AfterRunAll /\ tasks_ # <<>>) =>
        \E k \in 1..Len(tasks_) :
            /\ ret.val = <<tasks_[k].id, tasks_[k].result>>
            /\ \A j \in 1..Len(tasks_) : ~U64Less(tasks_[k].result, tasks_[j].result)
            /\ \A j \in 1..Len(tasks_) :
                  tasks_[j].result = tasks_[k].result => tasks_[k].id <= tasks_[j].id

\* best() was called after a run in which two workers tie on a non-zero maximum.
C4_Witness ==
    /\ ret.op = "best"
    /\ AfterRunAll
    /\ Len(tasks_) = 2
    /\ tasks_[1].result = tasks_[2].result
    /\ tasks_[1].result # U64Zero

\* C5: a coordinator built with thread_count = 0 is rejected by the
\* constructor; it never crashes and best() never returns a pair on it.
C5_EmptyRejected ==
    (pc # "new" /\ args[1] = 0) =>
        /\ pc = "threw"
        /\ ret.op # "best"

\* C6: the constructor fails on thread_count < 0 and on min_value > max_value,
\* with no task created and no thread spawned, and no worker draws from a
\* range with min_value > max_value.
C6_InvalidRejected ==
    /\ (pc # "new" /\ (args[1] < 0 \/ MinArg > MaxArg)) =>
          pc = "threw" /\ tasks_ = <<>> /\ threads_ = <<>>
    /\ \A t \in Threads :
          (threads_[t].pc = "loop" /\ threads_[t].i > 0) =>
              TaskOf(t).min_val <= TaskOf(t).max_val

\* C7: each task's operator() is entered at most once and its result_ is
\* assigned at most once, whatever the coordinator is asked to do, and exactly
\* once when run_all() has returned.
C7_RunOnce ==
    ValidConfig =>
        /\ \A k \in 1..Len(tasks_) : execs[k] <= 1 /\ writes[k] <= 1
        /\ AfterRunAll => \A k \in 1..Len(tasks_) : execs[k] = 1 /\ writes[k] = 1

\* C8: whenever a call of run_all() has returned, threads_.size() == tasks_.size().
C8_SizesEqual ==
    (ValidConfig /\ AfterRunAll) => Len(threads_) = Len(tasks_)

\* C9: with min_value = max_value = v >= 0 every worker's result after
\* run_all() is v * samples_per_thread; with thread_count = 1, samples = 5 and
\* v = 7, worker 0's result is 35 and best() returns (0, 35).
C9_ConstantRange ==
    /\ (AfterRunAll /\ SamplesArg >= 0 /\ MinArg = MaxArg /\ MinArg >= 0) =>
          \A k \in 1..Len(tasks_) : tasks_[k].result = <<MinArg * SamplesArg, 0, 0, 0>>
    /\ (AfterRunAll /\ args = <<1, 5, 7, 7>>) =>
          /\ tasks_[1].result = <<35, 0, 0, 0>>
          /\ ret.op = "best" => ret.val = <<0, <<35, 0, 0, 0>>>>

\* best() was called after the run of one worker drawing five times the value 7.
C9_Witness ==
    /\ AfterRunAll
    /\ args = <<1, 5, 7, 7>>
    /\ ret.op = "best"

\* C10: with samples_per_thread = 0 every worker's result is 0 after run_all(),
\* for any thread_count and any bounds.
C10_NoSamples ==
    (AfterRunAll /\ SamplesArg = 0) =>
        \A k \in 1..Len(tasks_) : tasks_[k].result = U64Zero

\* Two workers without samples, on a range with min_value > max_value, have
\* stored their sums and run_all() has returned.
C10_Witness ==
    /\ AfterRunAll
    /\ SamplesArg = 0
    /\ MinArg > MaxArg
    /\ Len(tasks_) = 2
    /\ \A k \in 1..Len(tasks_) : writes[k] >= 1

---------------------------------------------------------------------------
\* C11: under fair scheduling every call of run_all() on a range with
\* min_value <= max_value returns, whatever the sample count.
C11_RunAllReturns ==
    (pc \in {"spawn", "join"} /\ MinArg <= MaxArg) ~> (pc = "idle")

\* run_all() is waiting in its join loop for a worker that is still drawing.
C11_Witness ==
    /\ pc = "join"
    /\ MinArg <= MaxArg
    /\ it <= Len(threads_)
    /\ threads_[it].pc = "loop"
    /\ threads_[it].i < TaskOf(it).samples

---------------------------------------------------------------------------
\* C12: in main's flow, the thread spawned for task i is the only thread on
\* task i and the only one that ever assigns its result slot, one slot changes
\* per step at most, and summaries() and best() read the slots only when every
\* worker has finished and been joined.
C12_OwnThread ==
    \A t \in Threads :
        /\ threads_[t].task = t
        /\ \A u \in Threads : threads_[u].task = threads_[t].task => u = t

C12_OwnSlot ==
    \A k \in 1..Len(tasks_) :
        (Len(tasks_') = Len(tasks_) /\ tasks_'[k] # tasks_[k]) =>
            /\ k \in Threads
            /\ threads_[k].pc = "loop"
            /\ threads_'[k].pc = "done"
            /\ \A j \in 1..Len(tasks_) : j # k => tasks_'[j] = tasks_[j]

C12_ReadAfterJoin ==
    (ret' # ret /\ ret'.op \in {"summaries", "best"}) =>
        \A t \in Threads : threads_[t].pc = "done" /\ ~threads_[t].joinable

C12_NoSharedMutation ==
    /\ []C12_OwnThread
    /\ [][C12_OwnSlot /\ C12_ReadAfterJoin]_vars

\* The second worker has stored its sum while the first is still drawing.
C12_Witness ==
    /\ Len(threads_) = 2
    /\ threads_[2].pc = "done"
    /\ tasks_[2].result # U64Zero
    /\ threads_[1].pc = "loop"
    /\ threads_[1].i >= 1

---------------------------------------------------------------------------
\* C13: for every sample count and every max_value >= 0 no addition to the
\* 64-bit accumulator wraps around: the running sum never decreases.
C13_NeverWraps ==
    [][\A t \in Threads :
          (/\ Len(threads_') = Len(threads_)
           /\ MaxArg >= 0
           /\ MinArg <= MaxArg
           /\ threads_[t].pc = "loop"
           /\ threads_'[t].pc = "loop") =>
              ~U64Less(threads_'[t].acc, threads_[t].acc)]_vars

---------------------------------------------------------------------------
\* C14: summaries() and best() change nothing but the value they return, the
\* value is the one the tasks hold, and a call that follows a call of the same
\* function on a coordinator with tasks returns the same value.
C14_Frame ==
    (ret' # ret /\ ret'.op \in {"summaries", "best"}) =>
        UNCHANGED <<args, pc, tasks_, threads_, it, runs, writes, execs>>

C14_SameAgain ==
    (tasks_ # <<>> /\ ret.op = ret'.op /\ ret.op \in {"summaries", "best"}) => ret' = ret

C14_ReturnsWhatIsHeld ==
    /\ ret.op = "summaries" =>
          /\ Len(ret.val) = Len(tasks_)
          /\ \A k \in 1..Len(tasks_) : ret.val[k] = <<tasks_[k].id, tasks_[k].result>>
    /\ (ret.op = "best" /\ tasks_ # <<>>) =>
          \E k \in 1..Len(tasks_) : ret.val = <<tasks_[k].id, tasks_[k].result>>

C14_PureReads ==
    /\ []C14_ReturnsWhatIsHeld
    /\ [][C14_Frame /\ C14_SameAgain]_vars

\* summaries() has returned the non-zero sums of a second run of two workers.
C14_Witness ==
    /\ ret.op = "summaries"
    /\ pc = "idle"
    /\ runs = 2
    /\ Len(tasks_) = 2
    /\ \A k \in 1..Len(tasks_) : ret.val[k][2] # U64Zero

---------------------------------------------------------------------------
\* The task the p-th thread of threads_ was spawned for: each call of
\* run_all() spawns one thread per task, in the order of the tasks.
SpawnedFor(p) == ((p - 1) % Len(tasks_)) + 1

\* Thread t takes the step that stores its sum and ends it.
Stores(t) == threads_[t].pc = "loop" /\ threads_'[t].pc = "done"

\* C15: the value a worker leaves in summaries() is its own sum, in the slot
\* of the task it was spawned for, whichever workers finished before it; no
\* step of a worker touches another worker's locals or slot.
C15_OwnSumOwnSlot ==
    \A t \in Threads :
        Stores(t) =>
            tasks_' = [tasks_ EXCEPT ![SpawnedFor(t)].result = threads_[t].acc]

C15_NoInterference ==
    \A t \in Threads :
        (Len(threads_') = Len(threads_) /\ threads_'[t] # threads_[t]) =>
            \A u \in Threads : u # t => threads_'[u] = threads_[u]

C15_OrderIndependent == [][C15_OwnSumOwnSlot /\ C15_NoInterference]_vars

\* Both workers are spawned and the second has finished with a non-zero sum
\* before the first has even started.
C15_Witness ==
    /\ pc = "join"
    /\ Len(threads_) = 2
    /\ threads_[1].pc = "start"
    /\ threads_[2].pc = "done"
    /\ tasks_[2].result # U64Zero

---------------------------------------------------------------------------
\* C16: a task's result is 0 until its worker has stored a sum; before the
\* first run_all(), summaries() returns (i, 0) for every id i and best()
\* returns (0, 0) when there is a task.
C16_ZeroUntilStored ==
    /\ \A k \in 1..Len(tasks_) : writes[k] = 0 => tasks_[k].result = U64Zero
    /\ (pc = "idle" /\ runs = 0 /\ ret.op = "summaries") =>
          /\ Len(ret.val) = args[1]
          /\ \A k \in 1..Len(ret.val) : ret.val[k] = <<k - 1, <<0, 0, 0, 0>>>>
    /\ (pc = "idle" /\ runs = 0 /\ ret.op = "best" /\ args[1] >= 1) =>
          ret.val = <<0, <<0, 0, 0, 0>>>>

\* best() was called on a coordinator of two tasks before any run_all().
C16_Witness ==
    /\ pc = "idle"
    /\ runs = 0
    /\ ret.op = "best"
    /\ Len(tasks_) = 2

---------------------------------------------------------------------------
\* C17: a result slot is 0 or the sum of a finished run: it is non-zero only
\* once a run on it has stored, and it changes only in the step in which a
\* thread on it that has made all its draws stores its accumulator and ends.
C17_NonZeroIsStored ==
    \A k \in 1..Len(tasks_) : tasks_[k].result # U64Zero => writes[k] >= 1

C17_ChangesAtStore ==
    \A k \in 1..Len(tasks_) :
        (Len(tasks_') = Len(tasks_) /\ tasks_'[k].result # tasks_[k].result) =>
            \E t \in Threads :
                /\ threads_[t].task = k
                /\ Stores(t)
                /\ threads_[t].i >= tasks_[k].samples
                /\ threads_[t].i \in {0, tasks_[k].samples}
                /\ tasks_'[k].result = threads_[t].acc

C17_NoPartialSum == []C17_NonZeroIsStored /\ [][C17_ChangesAtStore]_vars

\* A worker holds the non-zero sum of one draw out of two and its slot is
\* still 0.
C17_Witness ==
    /\ Len(threads_) >= 1
    /\ threads_[1].pc = "loop"
    /\ threads_[1].i = 1
    /\ TaskOf(1).samples = 2
    /\ threads_[1].acc # U64Zero
    /\ tasks_[1].result = U64Zero

---------------------------------------------------------------------------
\* C18: each call of run_all() spawns thread_count threads, one per task and on
\* that task; the sum a thread stores goes into the coordinator's own task, and
\* it is what summaries() then returns for that id.
C18_OneThreadPerTask ==
    /\ \A t \in Threads : threads_[t].task = SpawnedFor(t)
    /\ pc = "join" => Len(threads_) = (runs + 1) * Len(tasks_)
    /\ pc = "idle" => Len(threads_) = runs * Len(tasks_)

C18_StoredInPlace ==
    \A t \in Threads :
        Stores(t) => tasks_'[threads_[t].task].result = threads_[t].acc

C18_Reported ==
    (ret' # ret /\ ret'.op = "summaries") =>
        \A k \in 1..Len(tasks_) : ret'.val[k] = <<k - 1, tasks_[k].result>>

C18_RunsInPlace ==
    /\ []C18_OneThreadPerTask
    /\ [][C18_StoredInPlace /\ C18_Reported]_vars

\* summaries() has returned the sums two threads stored in one run_all().
C18_Witness ==
    /\ ret.op = "summaries"
    /\ pc = "idle"
    /\ runs = 1
    /\ Len(threads_) = 2
    /\ ret.val[1][2] # U64Zero
    /\ ret.val[2][2] # U64Zero
    /\ ret.val[1][2] # ret.val[2][2]

====
